---- MODULE Spec2Model ----
(***************************************************************************)
(* Model of homeassistant/components/time_date/sensor.py: the Time & Date  *)
(* sensors, which publish a formatted clock value and re-arm a one-shot    *)
(* timer for the next minute, the next local midnight or the next beat.    *)
(*                                                                         *)
(* Instants are integers: tenths of a second since BaseEpoch               *)
(* (2023-01-01T23:00:00Z, a minute boundary and the start of beat @000).   *)
(***************************************************************************)
EXTENDS Integers, Sequences, FiniteSets, TLC

\* ------------------------------------------------------------------------
\* Bounds of the model
\* ------------------------------------------------------------------------
MaxHandles == 2      \* calls of async_added_to_hass explored in one run
MaxLate == 1         \* a timer is delivered up to this many tenths late
MaxRun == 900        \* tenths of a second covered by one run
IdleStep == 350      \* tenths of a second that pass when no timer is due
MaxNow == 900        \* dense range of instants (tenths) for get_next_interval
MaxDelay == 700      \* tenths by which the host may deliver a timer late
MaxSensors == 2      \* sensors constructed one by one in one run

\* ------------------------------------------------------------------------
\* Time base and time zones (homeassistant.util.dt over zoneinfo)
\* ------------------------------------------------------------------------
None == "None"
Hour == 60 * 60
Day == 24 * Hour
BaseEpoch == 19359 * Day - Hour          \* 1672614000 = 2023-01-01T23:00:00Z
Secs(n) == n * 10                        \* n seconds, in tenths

\* dt_util.as_timestamp, split into whole epoch seconds and tenths.
EpochSeconds(t) == BaseEpoch + (t \div 10)
Tenths(t) == t % 10

\* date(): proleptic Gregorian year, month, day of a day number since
\* 1970-01-01.
CivilFromDays(days) ==
  LET z == days + 719468
      era == z \div 146097
      doe == z - era * 146097
      yoe == (doe - doe \div 1460 + doe \div 36524 - doe \div 146096) \div 365
      doy == doe - (365 * yoe + yoe \div 4 - yoe \div 100)
      mp == (5 * doy + 2) \div 153
      d == doy - (153 * mp + 2) \div 5 + 1
      m == IF mp < 10 THEN mp + 3 ELSE mp - 9
      y == yoe + era * 400 + (IF m <= 2 THEN 1 ELSE 0)
  IN  [year |-> y, month |-> m, day |-> d]

\* Day number since 1970-01-01 of a proleptic Gregorian date.
DaysFromCivil(year, month, day) ==
  LET y == IF month <= 2 THEN year - 1 ELSE year
      era == y \div 400
      yoe == y - era * 400
      mp == IF month > 2 THEN month - 3 ELSE month + 9
      doy == (153 * mp + 2) \div 5 + day - 1
      doe == yoe * 365 + yoe \div 4 - yoe \div 100 + doy
  IN  era * 146097 + doe - 719468

\* Day of the week of a day number (0 is Sunday), and the Sundays next to
\* a day.
Weekday(days) == (days + 4) % 7
SundayOnOrBefore(days) == days - Weekday(days)
SundayOnOrAfter(days) == days + ((7 - Weekday(days)) % 7)

\* Calendar year of seconds counted from 1970-01-01T00:00.
YearOf(sec) == CivilFromDays(sec \div Day).year

\* The Sundays the zoneinfo rules name: the first and the last of a month.
FirstSunday(year, month) == SundayOnOrAfter(DaysFromCivil(year, month, 1))
LastSunday(year, month) ==
  SundayOnOrBefore(DaysFromCivil(IF month = 12 THEN year + 1 ELSE year,
                                 IF month = 12 THEN 1 ELSE month + 1, 1) - 1)

\* Days on which summer time starts and ends in Europe/Amsterdam, from
\* 1977 on (no summer time from 1946 to 1976): start on the first Sunday of
\* April until 1980, then the last of March; end on the last Sunday of
\* September until 1995 (1 October in 1978), then the last of October.
AmsterdamStartDay(year) ==
  IF year >= 1981 THEN LastSunday(year, 3) ELSE FirstSunday(year, 4)
AmsterdamEndDay(year) ==
  IF year >= 1996 THEN LastSunday(year, 10)
  ELSE IF year = 1978 THEN DaysFromCivil(1978, 10, 1)
  ELSE LastSunday(year, 9)

\* Sundays on which summer time ends and starts in Australia/Sydney (New
\* South Wales), from the end of 1971 on (no summer time from 1945 to 1971).
SydneyEndDay(year) ==
  CASE year >= 2008 -> FirstSunday(year, 4)
    [] year = 2007 -> LastSunday(year, 3)
    [] year = 2006 -> FirstSunday(year, 4)
    [] year >= 1996 -> LastSunday(year, 3)
    [] year >= 1990 -> FirstSunday(year, 3)
    [] year >= 1986 -> SundayOnOrAfter(DaysFromCivil(year, 3, 15))
    [] year >= 1983 -> FirstSunday(year, 3)
    [] year = 1982 -> FirstSunday(year, 4)
    [] year >= 1973 -> FirstSunday(year, 3)
    [] OTHER -> LastSunday(year, 2)
SydneyStartDay(year) ==
  CASE year >= 2008 -> FirstSunday(year, 10)
    [] year >= 2001 -> LastSunday(year, 10)
    [] year = 2000 -> LastSunday(year, 8)
    [] year >= 1987 -> LastSunday(year, 10)
    [] year = 1986 -> DaysFromCivil(1986, 10, 19)
    [] OTHER -> LastSunday(year, 10)

\* Local dates on which summer time starts and ends in Asia/Beirut, both
\* at 00:00 local time: the clocks go from 00:00 to 01:00 and from 00:00
\* back to 23:00.  Summer time in 1957-1961, 1972-1978 and from 1984 on.
BeirutSummerTime(year) ==
  \/ year >= 1984
  \/ year >= 1972 /\ year <= 1978
  \/ year >= 1957 /\ year <= 1961
BeirutStartDay(year) ==
  CASE year >= 1993 -> LastSunday(year, 3)
    [] year = 1989 -> DaysFromCivil(year, 5, 10)
    [] year = 1988 -> DaysFromCivil(year, 6, 1)
    [] year = 1978 -> DaysFromCivil(year, 4, 30)
    [] year = 1972 -> DaysFromCivil(year, 6, 22)
    [] OTHER -> DaysFromCivil(year, 5, 1)
BeirutEndDay(year) ==
  CASE year >= 1999 -> LastSunday(year, 10)
    [] year >= 1993 -> LastSunday(year, 9)
    [] year = 1992 -> DaysFromCivil(year, 10, 4)
    [] year >= 1984 -> DaysFromCivil(year, 10, 16)
    [] year = 1978 -> DaysFromCivil(year, 9, 30)
    [] OTHER -> DaysFromCivil(year, 10, 1)

\* A year without a change of offset: two changes that change nothing.
NoChange(offset) ==
  <<[at |-> BaseEpoch, before |-> offset, after |-> offset],
    [at |-> BaseEpoch, before |-> offset, after |-> offset]>>

\* The two offset changes of a zone in a year, in order: instant (epoch
\* seconds), UTC offset before and after (seconds), as the zoneinfo data
\* give them for the years 1946 to 2037.  Europe/Amsterdam changes at
\* 01:00 UTC, Australia/Sydney at 16:00 UTC on the eve of the Sunday; a
\* year with one change only (Sydney 1971) holds it twice; Asia/Beirut
\* changes at 00:00 local time, so that a local day there starts at 01:00
\* once a year; Asia/Kolkata and UTC do not change.
Zones ==
  {"UTC", "Europe/Amsterdam", "Australia/Sydney", "Asia/Kolkata", "Asia/Beirut"}
ZoneRule(z, year) ==
  CASE z = "Europe/Amsterdam" ->
         IF year < 1977 THEN NoChange(Hour)
         ELSE <<[at |-> AmsterdamStartDay(year) * Day + Hour,
                 before |-> Hour, after |-> 2 * Hour],
                [at |-> AmsterdamEndDay(year) * Day + Hour,
                 before |-> 2 * Hour, after |-> Hour]>>
    [] z = "Australia/Sydney" ->
         IF year < 1971 THEN NoChange(10 * Hour)
         ELSE <<[at |-> (IF year = 1971 THEN SydneyStartDay(year)
                                        ELSE SydneyEndDay(year)) * Day - 8 * Hour,
                 before |-> IF year = 1971 THEN 10 * Hour ELSE 11 * Hour,
                 after |-> IF year = 1971 THEN 11 * Hour ELSE 10 * Hour],
                [at |-> SydneyStartDay(year) * Day - 8 * Hour,
                 before |-> 10 * Hour, after |-> 11 * Hour]>>
    [] z = "Asia/Beirut" ->
         IF ~BeirutSummerTime(year) THEN NoChange(2 * Hour)
         ELSE <<[at |-> BeirutStartDay(year) * Day - 2 * Hour,
                 before |-> 2 * Hour, after |-> 3 * Hour],
                [at |-> BeirutEndDay(year) * Day - 3 * Hour,
                 before |-> 3 * Hour, after |-> 2 * Hour]>>
    [] z = "Asia/Kolkata" -> NoChange(5 * Hour + 1800)
    [] OTHER -> NoChange(0)

\* The element of a one-element set; {e(x) : x \in {v}} computes v once.
Only(S) == CHOOSE x \in S : TRUE

\* Offset in force at an absolute instant (epoch seconds).
UtcOffset(z, sec) ==
  Only({IF sec < r[1].at THEN r[1].before
        ELSE IF sec < r[2].at THEN r[1].after ELSE r[2].after :
          r \in {ZoneRule(z, YearOf(sec))}})

Max(a, b) == IF a >= b THEN a ELSE b

\* Offset zoneinfo picks for a wall-clock reading (fold = 0): the earlier
\* offset for a repeated reading and for a skipped one.
WallOffset(z, wall) ==
  Only({IF wall < r[1].at + Max(r[1].before, r[1].after) THEN r[1].before
        ELSE IF wall < r[2].at + Max(r[2].before, r[2].after) THEN r[1].after
        ELSE r[2].after :
          r \in {ZoneRule(z, YearOf(wall))}})

\* dt_util.as_local: wall-clock seconds since 1970-01-01T00:00 local.
as_local(z, t) == EpochSeconds(t) + UtcOffset(z, EpochSeconds(t))

\* dt_util.start_of_local_day(d): datetime.combine(date, 00:00, tzinfo=zone),
\* as an instant of the model.
start_of_local_day(z, date) ==
  LET wall == date * Day
  IN  Secs(wall - WallOffset(z, wall) - BaseEpoch)

\* ------------------------------------------------------------------------
\* get_next_interval
\* ------------------------------------------------------------------------
Kinds == {"time", "date", "date_time", "date_time_utc", "date_time_iso",
          "time_date", "beat", "time_utc"}

MinuteInterval == 600      \* interval = 60 (seconds), in tenths
BeatInterval == 864        \* interval = 86.4 (seconds), in tenths

\* Float arithmetic.  A remainder or delta is given in units of 1e-7 s
\* (Unit of them per tenth), rounded to the nearest unit; the errors that
\* decide the rounding are kept in picoseconds (Pico of them per unit).
\* The figures hold for timestamps from 2^30 to 2^31 (2004 to 2038), where
\* a double resolves 2^-22 s.
Unit == 1000 * 1000
Pico == 100 * 1000

\* as_timestamp(t) - t: the double nearest to a timestamp on the tenth grid
\* is a multiple of 2^-22 s; whole and half seconds are exact, the other
\* tenths are off by 0.2 or 0.4 of 2^-22 s.
TimestampError(t) ==
  CASE t % 5 = 1 -> -95367
    [] t % 5 = 2 -> 47684
    [] t % 5 = 3 -> -47684
    [] t % 5 = 4 -> 95367
    [] OTHER -> 0

\* The double 86.4 exceeds 86.4 by 5.684341886e-15 s, so the whole
\* intervals fmod takes off a timestamp are too long by 0.005684341886 ps
\* each.  A timestamp t tenths after the base holds 19359000 intervals up
\* to one hour after the base and one more per 864 tenths; the excess of
\* them all, to the nearest picosecond (computed in femtoseconds, ten
\* thousand intervals at a time).  The integer 60 is exact.
FloatDrift(t, interval) ==
  IF interval = BeatInterval
    THEN LET n == 19359000 + (t - Secs(Hour)) \div BeatInterval
             a == n \div 10000
             b == n % 10000
             femto == a * 56843 + (a * 41886) \div 100000
                        + (b * 56843) \div 10000
         IN  (femto + 500) \div 1000
    ELSE 0

\* timestamp % interval, for timestamp = as_timestamp(t), in units.  On an
\* exact boundary of the 86.4 s grid the float remainder falls below zero
\* and wraps to just under the interval.
FloatMod(t, interval) ==
  LET exact == (Secs(BaseEpoch % interval) + t) % interval
      error == TimestampError(t) - FloatDrift(t, interval)
      units == exact * Unit + (error + Pico \div 2) \div Pico
  IN  IF exact = 0 /\ error < 0 THEN units + interval * Unit ELSE units

\* Units (1e-7 s) in a second.
UnitsPerSecond == 10 * 1000 * 1000

\* floor(log2(n)) of an integer n >= 1, and floor(log2(units / 1e7)) of a
\* number of units >= 1: the binary exponent of the double.
Log2(n) ==
  LET RECURSIVE Halved(_, _)
      Halved(m, e) == IF m >= 2 THEN Halved(m \div 2, e + 1) ELSE e
  IN  Halved(n, 0)
Exponent(units) ==
  LET RECURSIVE Up(_, _)
      Up(p, e) == IF e < 7 /\ units >= p * 2 THEN Up(p * 2, e + 1) ELSE e
      RECURSIVE Down(_, _)
      Down(v, e) == IF v < UnitsPerSecond THEN Down(v * 2, e - 1) ELSE e
  IN  IF units >= UnitsPerSecond THEN Up(UnitsPerSecond, 0) ELSE Down(units, 0)

\* The double nearest to units * 1e-7 s against that number itself: below
\* (side -1), equal (0) or above (1), and the distance in parts of
\* 1 / (1e7 * 2^k) s, where 2^-k s is the spacing of doubles there
\* (k = 52 - exponent): the remainder of units * 2^k by 1e7, to the nearer
\* multiple.
DoubleOf(units) ==
  LET RECURSIVE Doubled(_, _)
      Doubled(r, n) ==
        IF n = 0 THEN r
        ELSE IF n >= 7 THEN Doubled((r * 128) % UnitsPerSecond, n - 7)
        ELSE Doubled((r * 2) % UnitsPerSecond, n - 1)
      rem == Doubled(units % UnitsPerSecond, 52 - Exponent(units))
  IN  IF rem = 0 THEN [side |-> 0, dist |-> 0]
      ELSE IF rem < UnitsPerSecond \div 2 THEN [side |-> -1, dist |-> rem]
      ELSE [side |-> 1, dist |-> UnitsPerSecond - rem]

\* Whether the product fraction * 1e6 of a double next to a half
\* microsecond m + 0.5 rounds to that half itself: the distance is at most
\* half the spacing of doubles at m + 0.5, that is 10 * 2^j parts with
\* j = exponent of the half - exponent of the seconds - 1 (one less below
\* 0.5, a power of two).
RoundsToHalf(units, double) ==
  LET m == (units % UnitsPerSecond) \div 10
      j == Log2(2 * m + 1) - 1 - Exponent(units) - 1
             - (IF double.side < 0 /\ m = 0 THEN 1 ELSE 0)
      RECURSIVE Pow2(_)
      Pow2(n) == IF n = 0 THEN 1 ELSE 2 * Pow2(n - 1)
      RECURSIVE Within(_, _)
      Within(d, n) ==
        IF n = 0 THEN d <= 10 ELSE IF d > 10 THEN FALSE ELSE Within(d * 2, n - 1)
  IN  IF j >= 0 THEN double.dist <= 10 * Pow2(j) ELSE Within(double.dist, -j)

\* timedelta(seconds=delta) for the double delta nearest to units * 1e-7 s,
\* in microseconds: the fraction of the second times 1e6 is rounded to the
\* nearest whole microsecond (10 units), and a product of exactly half a
\* microsecond to the even one.  A number of units ending in 5 is a half
\* only if its double times 1e6 rounds to one; otherwise the double's own
\* rounding error decides the direction.
TimedeltaMicros(units) ==
  LET whole == units \div 10
      part == units % 10
  IN  IF part < 5 THEN whole
      ELSE IF part > 5 THEN whole + 1
      ELSE LET double == DoubleOf(units)
           IN  IF RoundsToHalf(units, double) THEN whole + (whole % 2)
               ELSE IF double.side > 0 THEN whole + 1 ELSE whole

MicrosPerTenth == 100 * 1000

\* Variant whose delta is taken modulo the interval: 0 on a boundary.
get_next_interval_wrapped(type, z, now) ==
  IF type = "date"
    THEN start_of_local_day(z, (as_local(z, now) + Day) \div Day)
    ELSE LET interval == IF type = "beat" THEN BeatInterval ELSE MinuteInterval
             timestamp == IF type = "beat" THEN now + Secs(Hour) ELSE now
             delta == (interval * Unit - FloatMod(timestamp, interval))
                        % (interval * Unit)
         IN  now + TimedeltaMicros(delta) \div MicrosPerTenth

\* Variant that adds the day to the UTC instant and cuts it to a day with
\* the offset in force now, instead of working on the local calendar.
get_next_interval_fixed_offset(type, z, now) ==
  IF type = "date"
    THEN LET offset == UtcOffset(z, EpochSeconds(now))
             tomorrow == EpochSeconds(now) + offset + Day
         IN  Secs((tomorrow \div Day) * Day - offset - BaseEpoch)
    ELSE LET interval == IF type = "beat" THEN BeatInterval ELSE MinuteInterval
             timestamp == IF type = "beat" THEN now + Secs(Hour) ELSE now
             delta == interval * Unit - FloatMod(timestamp, interval)
         IN  now + TimedeltaMicros(delta) \div MicrosPerTenth

get_next_interval(type, z, now) ==
  IF type = "date"
    THEN LET tomorrow == as_local(z, now) + Day
         IN  start_of_local_day(z, tomorrow \div Day)
    ELSE LET interval == IF type = "beat" THEN BeatInterval ELSE MinuteInterval
             timestamp == IF type = "beat" THEN now + Secs(Hour) ELSE now
             delta == interval * Unit - FloatMod(timestamp, interval)
         IN  now + TimedeltaMicros(delta) \div MicrosPerTenth

\* ------------------------------------------------------------------------
\* _update_internal_state: the formatter.  Strings are sequences of
\* one-character strings, so that their layout can be inspected.
\* ------------------------------------------------------------------------
Digits == <<"0", "1", "2", "3", "4", "5", "6", "7", "8", "9">>
Digit(n) == Digits[n + 1]
DigitValue(c) == CHOOSE d \in 0..9 : Digits[d + 1] = c

Pad2(n) == <<Digit((n \div 10) % 10), Digit(n % 10)>>
Pad3(n) ==
  LET RECURSIVE Decimals(_)
      Decimals(m) == IF m < 10 THEN <<Digit(m)>>
                     ELSE Decimals(m \div 10) \o <<Digit(m % 10)>>
  IN  IF n < 1000 THEN <<Digit((n \div 100) % 10)>> \o Pad2(n)
      ELSE Decimals(n)
Pad4(n) == <<Digit((n \div 1000) % 10)>> \o Pad3(n % 1000)

\* strftime("%H:%M") of wall-clock seconds.
strftime(wall) ==
  Pad2((wall % Day) \div Hour) \o <<":">> \o Pad2((wall % Hour) \div 60)

\* date().isoformat() of wall-clock seconds.
isoformat_date(wall) ==
  Only({Pad4(c.year) \o <<"-">> \o Pad2(c.month) \o <<"-">> \o Pad2(c.day) :
          c \in {CivilFromDays(wall \div Day)}})

Number(s, from, to) ==
  LET RECURSIVE Value(_)
      Value(i) == IF i < from THEN 0 ELSE Value(i - 1) * 10 + DigitValue(s[i])
  IN  Value(to)

\* dt_util.parse_datetime of "YYYY-MM-DD HH:MM": a naive datetime.
parse_datetime(s) ==
  [year |-> Number(s, 1, 4), month |-> Number(s, 6, 7), day |-> Number(s, 9, 10),
   hour |-> Number(s, 12, 13), minute |-> Number(s, 15, 16), second |-> 0]

\* datetime.isoformat() of a naive datetime without microseconds.
isoformat_datetime(dt) ==
  Pad4(dt.year) \o <<"-">> \o Pad2(dt.month) \o <<"-">> \o Pad2(dt.day)
    \o <<"T">> \o Pad2(dt.hour) \o <<":">> \o Pad2(dt.minute)
    \o <<":">> \o Pad2(dt.second)

\* Variant that takes the time of day of the UTC instant itself, without the
\* hour that puts @000 at 23:00:00 UTC.
Beat_unshifted(time_date) ==
  LET seconds == EpochSeconds(time_date) % Day
      delta10 == Secs(seconds) + Tenths(time_date)
  IN  delta10 \div 864

\* Swatch Internet Time of an instant: int(delta.total_seconds() * 10) // 864
\* for delta the time of day one hour ahead of UTC.
Beat(time_date) ==
  LET time_bmt == time_date + Secs(Hour)
      seconds == EpochSeconds(time_bmt) % Day
      delta10 == Secs(seconds) + Tenths(time_bmt)
  IN  delta10 \div 864

\* Variant without the date_time_iso branch.
update_internal_state_no_iso(type, z, time_date, previous) ==
  Only({CASE type = "time" -> time
          [] type = "date" -> date
          [] type = "date_time" -> date \o <<",", " ">> \o time
          [] type = "date_time_utc" -> date_utc \o <<",", " ">> \o time_utc
          [] type = "time_date" -> time \o <<",", " ">> \o date
          [] type = "time_utc" -> time_utc
          [] type = "beat" -> <<"@">> \o Pad3(Beat(time_date))
          [] OTHER -> previous :
        time \in {strftime(as_local(z, time_date))},
        time_utc \in {strftime(EpochSeconds(time_date))},
        date \in {isoformat_date(as_local(z, time_date))},
        date_utc \in {isoformat_date(EpochSeconds(time_date))}})

\* The value _update_internal_state stores in _state: the four strings are
\* computed first, then the branch of the type is taken; an unlisted type
\* falls through every branch and keeps the previous value.
update_internal_state(type, z, time_date, previous) ==
  Only({CASE type = "time" -> time
          [] type = "date" -> date
          [] type = "date_time" -> date \o <<",", " ">> \o time
          [] type = "date_time_utc" -> date_utc \o <<",", " ">> \o time_utc
          [] type = "time_date" -> time \o <<",", " ">> \o date
          [] type = "time_utc" -> time_utc
          [] type = "beat" -> <<"@">> \o Pad3(Beat(time_date))
          [] type = "date_time_iso" ->
               Only({isoformat_datetime(dt) :
                       dt \in {parse_datetime(date \o <<" ">> \o time)}})
          [] OTHER -> previous :
        time \in {strftime(as_local(z, time_date))},
        time_utc \in {strftime(EpochSeconds(time_date))},
        date \in {isoformat_date(as_local(z, time_date))},
        date_utc \in {isoformat_date(EpochSeconds(time_date))}})

\* ------------------------------------------------------------------------
\* State
\* ------------------------------------------------------------------------
VARIABLES
  time_zone,   \* hass.config.time_zone, None when not configured
  options,     \* the display options enabled in config_entry.options
  entry_id,    \* config_entry.entry_id
  registry,    \* display options with an entity in the entity registry
  setup,       \* async_setup_entry: "pending", "done" or "failed"
  clock,       \* dt_util.utcnow()
  entities,    \* display options whose TimeDateSensor has been constructed
  unique_id,   \* TimeDateSensor._attr_unique_id per option (None: no sensor)
  state,       \* TimeDateSensor._state per option (NoValue is Python's None)
  unsub,       \* TimeDateSensor.unsub per option (NoHandle is Python's None)
  timers,      \* armed one-shot timers of the host: [id, owner, at]
  nextHandle,  \* identifier of the next timer armed by async_added_to_hass
  added,       \* host view: added to hass and not removed since
  written,     \* last value passed to the host by async_write_ha_state
  call,        \* the last get_next_interval call: [type, now, next]
  cancelled,   \* identifiers of the timers cancelled so far
  lastOp,      \* the last operation: [op, kind, raised, handle, did]
  prevOp       \* the operation before it

hostVars == <<time_zone, options, entry_id>>
setupVars == <<registry, setup, unique_id>>
sensorVars == <<entities, state, unsub>>
vars == <<time_zone, options, entry_id, registry, setup, clock, entities,
          unique_id, state, unsub, timers, nextHandle, added, written, call,
          cancelled, lastOp, prevOp>>

NoValue == <<>>
NoHandle == 0
NoCall == [type |-> None, now |-> 0, next |-> 0]

\* An operation on sensor k, with the timer it armed or cancelled and, for
\* the listener, the calls it made in the order it made them.
Op(name, k, h) ==
  [op |-> name, kind |-> k, raised |-> FALSE, handle |-> h, did |-> <<>>]

\* The entry ids a run is set up with.
EntryIds == {"entry"}

\* Instants at which a run starts, per zone: an exact minute and beat
\* boundary, half a second later, and shortly before the local midnights
\* next to the zone's offset changes of spring and autumn 2023.
Starts(z) ==
  CASE z = "Europe/Amsterdam" ->
         {0, Secs(83 * Day) - 12, Secs(84 * Day - Hour) - 12,
          Secs(299 * Day + 23 * Hour) - 12}
    [] z = "Australia/Sydney" ->
         {5, Secs(89 * Day + 14 * Hour) - 12, Secs(90 * Day + 15 * Hour) - 12,
          Secs(271 * Day + 15 * Hour) - 12}
    [] z = "Asia/Beirut" ->
         {5, Secs(1991 * Hour) - 12, Secs(7199 * Hour) - 12}
    [] z = "Asia/Kolkata" -> {Secs(19 * Hour + 1800) - 3}
    [] OTHER -> {0, 5, Secs(Hour) - 7}
StartTimes == UNION {Starts(z) : z \in Zones}

\* A run covers MaxRun tenths from the latest start instant it has passed.
WindowEnd(c) ==
  LET passed == {s \in StartTimes : s <= c}
  IN  (CHOOSE s \in passed : \A o \in passed : o <= s) + MaxRun

OptionSets(n) == {o \in SUBSET Kinds : Cardinality(o) <= n}

TypeOK ==
  /\ time_zone \in Zones \cup {None}
  /\ options \subseteq Kinds
  /\ entry_id \in STRING
  /\ DOMAIN unique_id = Kinds
  /\ registry \subseteq Kinds
  /\ setup \in {"pending", "done", "failed"}
  /\ clock \in Nat
  /\ entities \subseteq Kinds
  /\ DOMAIN state = Kinds
  /\ unsub \in [Kinds -> 0..MaxHandles]
  /\ \A t \in timers : t.id \in 1..MaxHandles /\ t.owner \in Kinds /\ t.at \in Nat
  /\ nextHandle \in 1..(MaxHandles + 1)
  /\ added \in [Kinds -> BOOLEAN]
  /\ DOMAIN written = Kinds

InitWith(zones, optionSets, registries, starts) ==
  /\ time_zone \in zones
  /\ options \in optionSets
  /\ entry_id \in EntryIds
  /\ unique_id = [k \in Kinds |-> None]
  /\ registry \in registries
  /\ setup = "pending"
  /\ clock \in starts
  /\ entities = {}
  /\ state = [k \in Kinds |-> NoValue]
  /\ unsub = [k \in Kinds |-> NoHandle]
  /\ timers = {}
  /\ nextHandle = 1
  /\ added = [k \in Kinds |-> FALSE]
  /\ written = [k \in Kinds |-> NoValue]
  /\ call = NoCall
  /\ cancelled = {}
  /\ lastOp = Op("init", None, NoHandle)
  /\ prevOp = Op("init", None, NoHandle)

Init == \E z \in Zones : InitWith({z}, OptionSets(1), {{}}, Starts(z))

\* ------------------------------------------------------------------------
\* Operations
\* ------------------------------------------------------------------------

\* TimeDateSensor.__init__: the value computed from utcnow().
TimeDateSensor(option_type) ==
  update_internal_state(option_type, time_zone, clock, NoValue)

\* f"{unique_id}_{option}"
UniqueId(id, option) == id \o "_" \o option

\* Option types a caller may pass that OPTION_TYPES does not list.
UnknownTypes == {"moon"}

\* Variant of the constructor without the OPTION_TYPES lookup: an unlisted
\* type reaches _update_internal_state, which returns without a value.
Construct_no_lookup(option_type) ==
  /\ option_type \notin entities
  /\ Cardinality(entities) < MaxSensors
  /\ entities' = entities \cup {option_type}
  /\ unique_id' = [k \in Kinds \cup {option_type} |->
                      IF k = option_type THEN UniqueId(entry_id, k)
                                         ELSE unique_id[k]]
  /\ state' = [k \in Kinds \cup {option_type} |->
                  IF k = option_type THEN TimeDateSensor(k) ELSE state[k]]
  /\ lastOp' = [Op("construct", option_type, NoHandle) EXCEPT
                  !.did = <<<<"update", clock>>>>]
  /\ prevOp' = lastOp
  /\ UNCHANGED <<hostVars, registry, setup, clock, unsub, timers, nextHandle,
                 added, written, call, cancelled>>

\* TimeDateSensor(hass, option_type, unique_id) called for any option type:
\* OPTION_TYPES[option_type] raises KeyError for an unlisted type before
\* the type is stored and the value computed.
Construct(option_type) ==
  /\ option_type \notin entities
  /\ Cardinality(entities) < MaxSensors
  /\ IF option_type \in Kinds
       THEN /\ entities' = entities \cup {option_type}
            /\ unique_id' = [unique_id EXCEPT
                               ![option_type] = UniqueId(entry_id, option_type)]
            /\ state' = [state EXCEPT ![option_type] = TimeDateSensor(option_type)]
            /\ lastOp' = [Op("construct", option_type, NoHandle) EXCEPT
                            !.did = <<<<"update", clock>>>>]
       ELSE /\ lastOp' = [Op("construct", option_type, NoHandle) EXCEPT
                            !.raised = TRUE]
            /\ UNCHANGED <<entities, unique_id, state>>
  /\ prevOp' = lastOp
  /\ UNCHANGED <<hostVars, registry, setup, clock, unsub, timers, nextHandle,
                 added, written, call, cancelled>>

\* registry.async_remove(entity_id) for the given options: the host drops
\* the removed entities together with the state it still showed for them.
async_remove(published, removed) ==
  [k \in Kinds |-> IF k \in removed THEN NoValue ELSE published[k]]

\* Variant that sets the sensors up without looking at the time zone.
SetupEntry_no_check ==
  /\ setup = "pending"
  /\ setup' = "done"
  /\ registry' = registry \cap options
  /\ written' = async_remove(written, registry \ options)
  /\ entities' = options
  /\ unique_id' = [k \in Kinds |-> IF k \in options
                                     THEN UniqueId(entry_id, k)
                                     ELSE unique_id[k]]
  /\ state' = [k \in Kinds |-> IF k \in options THEN TimeDateSensor(k)
                                               ELSE state[k]]
  /\ lastOp' = [Op("setup", None, NoHandle) EXCEPT
                  !.did = <<<<"remove", registry \ options>>, <<"add", options>>>>]
  /\ prevOp' = lastOp
  /\ UNCHANGED <<hostVars, clock, unsub, timers, nextHandle, added, call,
                 cancelled>>

\* Variant that leaves the registry entries of the disabled options alone.
SetupEntry_keep_registry ==
  /\ setup = "pending"
  /\ IF time_zone = None
       THEN /\ setup' = "failed"
            /\ lastOp' = [Op("setup", None, NoHandle) EXCEPT
                            !.did = <<<<"error">>>>]
            /\ UNCHANGED <<registry, written, entities, unique_id, state>>
       ELSE /\ setup' = "done"
            /\ UNCHANGED <<registry, written>>
            /\ entities' = options
            /\ unique_id' = [k \in Kinds |-> IF k \in options
                                               THEN UniqueId(entry_id, k)
                                               ELSE unique_id[k]]
            /\ state' = [k \in Kinds |-> IF k \in options THEN TimeDateSensor(k)
                                                         ELSE state[k]]
            /\ lastOp' = [Op("setup", None, NoHandle) EXCEPT
                            !.did = <<<<"remove", {}>>, <<"add", options>>>>]
  /\ prevOp' = lastOp
  /\ UNCHANGED <<hostVars, clock, unsub, timers, nextHandle, added, call,
                 cancelled>>

\* async_setup_entry: without a time zone it logs an error and returns;
\* with one it removes the registry entries of the disabled options and
\* passes one new sensor per enabled option to async_add_entities.
SetupEntry ==
  /\ setup = "pending"
  /\ IF time_zone = None
       THEN /\ setup' = "failed"
            /\ lastOp' = [Op("setup", None, NoHandle) EXCEPT
                            !.did = <<<<"error">>>>]
            /\ UNCHANGED <<registry, written, entities, unique_id, state>>
       ELSE /\ setup' = "done"
            /\ registry' = registry \cap options
            /\ written' = async_remove(written, registry \ options)
            /\ entities' = options
            /\ unique_id' = [k \in Kinds |-> IF k \in options
                                               THEN UniqueId(entry_id, k)
                                               ELSE unique_id[k]]
            /\ state' = [k \in Kinds |-> IF k \in options THEN TimeDateSensor(k)
                                                         ELSE state[k]]
            /\ lastOp' = [Op("setup", None, NoHandle) EXCEPT
                            !.did = <<<<"remove", registry \ options>>,
                                      <<"add", options>>>>]
  /\ prevOp' = lastOp
  /\ UNCHANGED <<hostVars, clock, unsub, timers, nextHandle, added, call,
                 cancelled>>

\* The timer async_track_point_in_utc_time arms for a sensor.
NewTimer(id, k) ==
  [id |-> id, owner |-> k, at |-> get_next_interval(k, time_zone, clock)]

Cancel(id) == {t \in timers : t.id # id}

\* Variant that keeps the handle in an attribute of the class, shared by
\* all sensors.
Activate_shared_handle(k) ==
  /\ k \in entities
  /\ nextHandle <= MaxHandles
  /\ timers' = timers \cup {NewTimer(nextHandle, k)}
  /\ unsub' = [j \in Kinds |-> IF j \in entities THEN nextHandle ELSE unsub[j]]
  /\ nextHandle' = nextHandle + 1
  /\ added' = [added EXCEPT ![k] = TRUE]
  /\ call' = [type |-> k, now |-> clock, next |-> NewTimer(nextHandle, k).at]
  /\ lastOp' = Op("activate", k, nextHandle)
  /\ prevOp' = lastOp
  /\ UNCHANGED <<hostVars, setupVars, clock, entities, state, written,
                 cancelled>>

\* async_added_to_hass
Activate(k) ==
  /\ k \in entities
  /\ nextHandle <= MaxHandles
  /\ timers' = timers \cup {NewTimer(nextHandle, k)}
  /\ unsub' = [unsub EXCEPT ![k] = nextHandle]
  /\ nextHandle' = nextHandle + 1
  /\ added' = [added EXCEPT ![k] = TRUE]
  /\ call' = [type |-> k, now |-> clock, next |-> NewTimer(nextHandle, k).at]
  /\ lastOp' = Op("activate", k, nextHandle)
  /\ prevOp' = lastOp
  /\ UNCHANGED <<hostVars, setupVars, clock, entities, state, written,
                 cancelled>>

\* Variant that calls self.unsub() without testing it: calling None raises.
Deactivate_unchecked(k) ==
  /\ k \in entities
  /\ IF unsub[k] # NoHandle
       THEN /\ timers' = Cancel(unsub[k])
            /\ cancelled' = cancelled \cup {unsub[k]}
            /\ unsub' = [unsub EXCEPT ![k] = NoHandle]
            /\ added' = [added EXCEPT ![k] = FALSE]
            /\ lastOp' = Op("deactivate", k, unsub[k])
       ELSE /\ lastOp' = [Op("deactivate", k, NoHandle) EXCEPT !.raised = TRUE]
            /\ UNCHANGED <<timers, unsub, cancelled, added>>
  /\ prevOp' = lastOp
  /\ UNCHANGED <<hostVars, setupVars, clock, entities, state, nextHandle,
                 written, call>>

\* Variant that drops the handle without calling it.
Deactivate_uncancelled(k) ==
  /\ k \in entities
  /\ unsub' = [unsub EXCEPT ![k] = NoHandle]
  /\ added' = [added EXCEPT ![k] = FALSE]
  /\ lastOp' = Op("deactivate", k, unsub[k])
  /\ prevOp' = lastOp
  /\ UNCHANGED <<hostVars, setupVars, clock, entities, state, nextHandle,
                 written, call, timers, cancelled>>

\* async_will_remove_from_hass
Deactivate(k) ==
  /\ k \in entities
  /\ IF unsub[k] # NoHandle
       THEN /\ timers' = Cancel(unsub[k])
            /\ cancelled' = cancelled \cup {unsub[k]}
            /\ unsub' = [unsub EXCEPT ![k] = NoHandle]
       ELSE UNCHANGED <<timers, unsub, cancelled>>
  /\ added' = [added EXCEPT ![k] = FALSE]
  /\ lastOp' = Op("deactivate", k, unsub[k])
  /\ prevOp' = lastOp
  /\ UNCHANGED <<hostVars, setupVars, clock, entities, state, nextHandle,
                 written, call>>

\* Variant that updates and writes the value but arms no new timer.
Fire_once(t) ==
  /\ t \in timers
  /\ clock >= t.at
  /\ LET k == t.owner
     IN  \E value \in {update_internal_state(k, time_zone, t.at, state[k])} :
         /\ state' = [state EXCEPT ![k] = value]
         /\ written' = [written EXCEPT ![k] = value]
         /\ timers' = timers \ {t}
         /\ lastOp' = Op("fire", k, t.id)
  /\ prevOp' = lastOp
  /\ UNCHANGED <<hostVars, setupVars, clock, entities, nextHandle, added,
                 cancelled, unsub, call>>

\* Variant that writes the state before updating the value.
Fire_write_first(t) ==
  /\ t \in timers
  /\ clock >= t.at
  /\ LET k == t.owner
         next == NewTimer(t.id, k)
     IN  \E value \in {update_internal_state(k, time_zone, t.at, state[k])} :
         /\ written' = [written EXCEPT ![k] = state[k]]
         /\ state' = [state EXCEPT ![k] = value]
         /\ timers' = (timers \ {t}) \cup {next}
         /\ unsub' = [unsub EXCEPT ![k] = t.id]
         /\ call' = [type |-> k, now |-> clock, next |-> next.at]
         /\ lastOp' = [Op("fire", k, t.id) EXCEPT
                         !.did = <<<<"write", state[k]>>, <<"update", t.at>>,
                                   <<"arm", next.at>>>>]
  /\ prevOp' = lastOp
  /\ UNCHANGED <<hostVars, setupVars, clock, entities, nextHandle, added,
                 cancelled>>

\* Variant that formats the current time instead of the instant the
\* listener was called with.
Fire_from_clock(t) ==
  /\ t \in timers
  /\ clock >= t.at
  /\ LET k == t.owner
         next == NewTimer(t.id, k)
     IN  \E value \in {update_internal_state(k, time_zone, clock, state[k])} :
         /\ state' = [state EXCEPT ![k] = value]
         /\ written' = [written EXCEPT ![k] = value]
         /\ timers' = (timers \ {t}) \cup {next}
         /\ unsub' = [unsub EXCEPT ![k] = t.id]
         /\ call' = [type |-> k, now |-> clock, next |-> next.at]
         /\ lastOp' = [Op("fire", k, t.id) EXCEPT
                         !.did = <<<<"update", clock>>, <<"write", value>>,
                                   <<"arm", next.at>>>>]
  /\ prevOp' = lastOp
  /\ UNCHANGED <<hostVars, setupVars, clock, entities, nextHandle, added,
                 cancelled>>

\* point_in_time_listener, run by the host for a due timer with the
\* timer's target instant.  The timer that fired is gone and no reference
\* to it survives the callback, so the timer armed in its place takes its
\* identifier.
Fire(t) ==
  /\ t \in timers
  /\ clock >= t.at
  /\ LET k == t.owner
         next == NewTimer(t.id, k)
     IN  \E value \in {update_internal_state(k, time_zone, t.at, state[k])} :
         /\ state' = [state EXCEPT ![k] = value]
         /\ written' = [written EXCEPT ![k] = value]
         /\ timers' = (timers \ {t}) \cup {next}
         /\ unsub' = [unsub EXCEPT ![k] = t.id]
         /\ call' = [type |-> k, now |-> clock, next |-> next.at]
         /\ lastOp' = [Op("fire", k, t.id) EXCEPT
                         !.did = <<<<"update", t.at>>, <<"write", value>>,
                                   <<"arm", next.at>>>>]
  /\ prevOp' = lastOp
  /\ UNCHANGED <<hostVars, setupVars, clock, entities, nextHandle, added,
                 cancelled>>

\* Time passes: to an armed timer's target or up to MaxLate past it, or by
\* IdleStep while no timer is armed.
Advance ==
  /\ \E c \in {t.at + l : t \in timers, l \in 0..MaxLate}
               \cup (IF timers = {} THEN {clock + IdleStep} ELSE {}) :
       /\ c > clock
       /\ c <= WindowEnd(clock)
       /\ clock' = c
  /\ lastOp' = Op("advance", None, NoHandle)
  /\ prevOp' = lastOp
  /\ UNCHANGED <<hostVars, setupVars, sensorVars, timers, nextHandle,
                 added, written, call, cancelled>>

\* async_added_to_hass when async_track_point_in_utc_time raises: the
\* assignment to self.unsub does not happen and the exception leaves the
\* method.
ActivateArmFails(k) ==
  /\ k \in entities
  /\ call' = [type |-> k, now |-> clock, next |-> NewTimer(nextHandle, k).at]
  /\ lastOp' = [Op("activate", k, NoHandle) EXCEPT !.raised = TRUE]
  /\ prevOp' = lastOp
  /\ UNCHANGED <<hostVars, setupVars, clock, entities, state, written,
                 cancelled, timers, unsub, nextHandle, added>>

\* point_in_time_listener when async_track_point_in_utc_time raises: the
\* value is updated and written, the assignment to self.unsub does not
\* happen, so the handle of the delivered timer stays stored, and the
\* exception leaves the callback.
FireArmFails(t) ==
  /\ t \in timers
  /\ clock >= t.at
  /\ LET k == t.owner
     IN  \E value \in {update_internal_state(k, time_zone, t.at, state[k])} :
         /\ state' = [state EXCEPT ![k] = value]
         /\ written' = [written EXCEPT ![k] = value]
         /\ timers' = timers \ {t}
         /\ call' = [type |-> k, now |-> clock,
                     next |-> get_next_interval(k, time_zone, clock)]
         /\ lastOp' = [Op("fire", k, t.id) EXCEPT
                         !.raised = TRUE,
                         !.did = <<<<"update", t.at>>, <<"write", value>>>>]
  /\ prevOp' = lastOp
  /\ UNCHANGED <<hostVars, setupVars, clock, entities, nextHandle, added,
                 cancelled, unsub>>

\* The host is busy or suspended: time passes to MaxDelay after the target
\* of an armed timer, which is then delivered that late.
Delay ==
  /\ \E t \in timers :
       /\ clock < t.at + MaxDelay
       /\ t.at + MaxDelay <= WindowEnd(clock) + 2 * MaxDelay
       /\ clock' = t.at + MaxDelay
  /\ lastOp' = Op("delay", None, NoHandle)
  /\ prevOp' = lastOp
  /\ UNCHANGED <<hostVars, setupVars, sensorVars, timers, nextHandle,
                 added, written, call, cancelled>>

Next ==
  \/ SetupEntry
  \/ \E k \in Kinds : Activate(k)
  \/ \E k \in Kinds : Deactivate(k)
  \/ \E t \in timers : Fire(t)
  \/ Advance

Spec == Init /\ [][Next]_vars

\* The lifecycle of sensors that are added to hass once and never removed,
\* with the host delivering every due timer and time passing; runs start on
\* a minute and beat boundary and shortly before UTC midnight.
LiveInit == InitWith({"UTC"}, {{k} : k \in Kinds}, {{}}, {0, Secs(Hour) - 7})

LiveNext ==
  \/ SetupEntry
  \/ \E k \in Kinds : ~added[k] /\ Activate(k)
  \/ \E t \in timers : Fire(t)
  \/ Advance

LiveSpec ==
  /\ LiveInit
  /\ [][LiveNext]_vars
  /\ WF_vars(Advance)
  /\ \A id \in 1..MaxHandles : WF_vars(\E t \in timers : t.id = id /\ Fire(t))

\* The lifecycle with late deliveries, in a zone half an hour off the UTC
\* minute grid of the beat and in UTC.
LateInit ==
  InitWith({"Asia/Kolkata", "UTC"}, {{k} : k \in Kinds}, {{}},
           {0, 5, Secs(Hour) - 7})

LateNext ==
  \/ SetupEntry
  \/ \E k \in Kinds : Activate(k)
  \/ \E k \in Kinds : Deactivate(k)
  \/ \E t \in timers : Fire(t)
  \/ Advance
  \/ Delay

LateSpec == LateInit /\ [][LateNext]_vars

\* The lifecycle of sensors added and removed in turn by a host whose
\* scheduling call may raise.
FailInit == InitWith({"UTC"}, {{k} : k \in Kinds}, {{}}, {0, 5})

FailNext ==
  \/ SetupEntry
  \/ \E k \in Kinds : ~added[k] /\ Activate(k)
  \/ \E k \in Kinds : ~added[k] /\ ActivateArmFails(k)
  \/ \E k \in Kinds : added[k] /\ Deactivate(k)
  \/ \E t \in timers : Fire(t)
  \/ \E t \in timers : FireArmFails(t)
  \/ Advance

FailSpec == FailInit /\ [][FailNext]_vars

\* Sensors constructed directly, one by one, with listed and unlisted option
\* types, then added, with their timers delivered.
CtorInit == InitWith({"Asia/Kolkata"}, {{}}, {{}}, {0, 5})

CtorNext ==
  \/ \E option_type \in Kinds \cup UnknownTypes : Construct(option_type)
  \/ \E k \in Kinds : ~added[k] /\ Activate(k)
  \/ \E t \in timers : Fire(t)
  \/ Advance

CtorSpec == CtorInit /\ [][CtorNext]_vars

\* The lifecycle of two sensors of one entry, their operations interleaved.
MultiSets ==
  {{"time", "beat"}, {"beat", "date"}, {"date", "time"},
   {"date_time", "time_utc"}, {"date_time_utc", "time_date"},
   {"date_time_iso", "beat"}}

MultiInit == InitWith({"UTC"}, MultiSets, {{}}, {0, 5})

MultiSpec == MultiInit /\ [][Next]_vars

\* Setups of an entry with or without a time zone, with any of a range of
\* sets of enabled options, over a registry left by an earlier setup whose
\* entities the host still shows as unavailable.
SetupKinds == {"time", "date", "beat", "date_time_iso"}
SetupSets == (SUBSET SetupKinds) \cup {Kinds}
Unavailable == <<"unavailable">>

SetupInit ==
  /\ time_zone \in {None, "UTC"}
  /\ options \in SetupSets
  /\ entry_id \in {"entry", "0a1b2c"}
  /\ unique_id = [k \in Kinds |-> None]
  /\ registry \in SetupSets
  /\ setup = "pending"
  /\ clock \in {5}
  /\ entities = {}
  /\ state = [k \in Kinds |-> NoValue]
  /\ unsub = [k \in Kinds |-> NoHandle]
  /\ timers = {}
  /\ nextHandle = 1
  /\ added = [k \in Kinds |-> FALSE]
  /\ written = [k \in Kinds |-> IF k \in registry THEN Unavailable ELSE NoValue]
  /\ call = NoCall
  /\ cancelled = {}
  /\ lastOp = Op("init", None, NoHandle)
  /\ prevOp = Op("init", None, NoHandle)

SetupNext ==
  \/ SetupEntry
  \/ \E k \in Kinds : ~added[k] /\ Activate(k)
  \/ \E k \in Kinds : added[k] /\ Deactivate(k)

SetupSpec == SetupInit /\ [][SetupNext]_vars

\* get_next_interval applied once or more at an instant drawn from a dense
\* range around the base and from the hours around the offset changes.
DateInstants ==
  {Secs(d * Day + h * Hour) + e :
     d \in (82..90) \cup (270..273) \cup (299..301), h \in 0..23,
     e \in {0, 1, Secs(Hour) - 1}}
FnInstants == (0..MaxNow) \cup DateInstants

FnInit == InitWith(Zones, {{k} : k \in Kinds}, {{}}, FnInstants)

FnNext ==
  \/ SetupEntry
  \/ \E k \in Kinds : Activate(k)

FnSpec == FnInit /\ [][FnNext]_vars

\* ------------------------------------------------------------------------
\* Properties
\* ------------------------------------------------------------------------
Own(k) == {t \in timers : t.owner = k}
TimerIds == {t.id : t \in timers}

\* State Armed of a sensor: exactly one timer is armed for it and the
\* stored handle is that timer's.
Armed(k) == \E t \in timers : Own(k) = {t} /\ unsub[k] = t.id

\* C1: at most one armed timer targets a sensor, whatever operations ran.
C1_AtMostOneTimer == \A k \in Kinds : Cardinality(Own(k)) <= 1

\* C2: a sensor that is not added (removed, and not activated since) has
\* no armed timer, so its listener cannot run again.
C2_NoTimerAfterDeactivate == \A k \in Kinds : ~added[k] => Own(k) = {}

\* C3: async_will_remove_from_hass on a sensor whose handle is clear raises
\* nothing, cancels nothing and changes neither timers, handle nor value.
C3_DeactivateIdempotent ==
  [][\A k \in Kinds :
       (lastOp'.op = "deactivate" /\ lastOp'.kind = k /\ unsub[k] = NoHandle)
         => /\ ~lastOp'.raised
            /\ lastOp'.handle = NoHandle
            /\ timers' = timers
            /\ cancelled' = cancelled
            /\ unsub'[k] = NoHandle
            /\ state' = state
            /\ written' = written
            /\ (Own(k) = {} => Own(k)' = {})]_vars

\* C3 witness: a deactivate that found the handle already cleared by an
\* earlier deactivate of the same sensor.
C3_Witness ==
  /\ lastOp.op = "deactivate" /\ lastOp.handle = NoHandle /\ ~lastOp.raised
  /\ prevOp.op = "deactivate" /\ prevOp.kind = lastOp.kind
  /\ prevOp.handle # NoHandle
  /\ Own(lastOp.kind) = {} /\ unsub[lastOp.kind] = NoHandle

\* C4: deactivate on an Armed sensor cancels its timer and clears the
\* handle; the activate that follows arms exactly one timer, a new one,
\* whose handle is stored; a cancelled timer is never armed or fired again.
C4_RestartNoDuplicate ==
  [][\A k \in Kinds :
       /\ (lastOp'.op = "deactivate" /\ lastOp'.kind = k /\ Armed(k))
            => /\ Own(k)' = {}
               /\ unsub'[k] = NoHandle
               /\ cancelled' = cancelled \cup {unsub[k]}
       /\ (/\ lastOp'.op = "activate" /\ lastOp'.kind = k
           /\ lastOp.op = "deactivate" /\ lastOp.kind = k
           /\ lastOp.handle # NoHandle /\ Own(k) = {})
            => /\ Armed(k)'
               /\ unsub'[k] \notin cancelled'
               /\ lastOp.handle \notin TimerIds'
       /\ (lastOp'.op = "fire" /\ lastOp'.kind = k)
            => lastOp'.handle \notin cancelled
       /\ cancelled' \cap TimerIds' = {}]_vars

\* C4 witness: the first timer was cancelled by a deactivate and the
\* activate right after it left one armed timer, the second.
C4_Witness ==
  /\ lastOp.op = "activate" /\ prevOp.op = "deactivate"
  /\ prevOp.kind = lastOp.kind /\ prevOp.handle = 1
  /\ cancelled = {1}
  /\ Armed(lastOp.kind) /\ unsub[lastOp.kind] = 2

\* C6: a constructed sensor always has a value.
C6_ValueNeverEmpty == \A k \in entities : state[k] # NoValue

\* C6 witness: a date_time_iso sensor constructed and not yet activated.
C6_Witness ==
  /\ "date_time_iso" \in entities
  /\ nextHandle = 1 /\ timers = {}
  /\ Len(state["date_time_iso"]) = 19

\* A timer the run can still deliver, and the fire of a timer.
Deliverable(id) == \E t \in timers : t.id = id /\ t.at <= WindowEnd(clock)
JustFired(id) == lastOp.op = "fire" /\ lastOp.handle = id

\* C5: with every due timer delivered and no removal, each armed timer the
\* run can reach is followed by a fire, and each fire leaves the value
\* written and the sensor's next timer armed under the stored handle.
C5_RepublishLoopLive ==
  \A id \in 1..MaxHandles :
    /\ (Deliverable(id) /\ ~JustFired(id)) ~> JustFired(id)
    /\ [](JustFired(id) =>
            /\ \E t \in timers : t.id = id /\ t.owner = lastOp.kind
            /\ unsub[lastOp.kind] = id
            /\ written[lastOp.kind] = state[lastOp.kind]
            /\ state[lastOp.kind] # NoValue)

\* C5 witness: a timer fired after time passed, the value was written and
\* the next timer is armed for a later instant.
C5_Witness ==
  /\ lastOp.op = "fire" /\ prevOp.op = "advance"
  /\ Armed(lastOp.kind)
  /\ written[lastOp.kind] = state[lastOp.kind]
  /\ \A t \in Own(lastOp.kind) : t.at > clock

\* The remainder of the epoch timestamp of an instant, shifted by the given
\* seconds, modulo a cadence in tenths of a second.
Phase(t, shift, cadence) == (Secs((BaseEpoch + shift) % cadence) + t) % cadence

\* C7: get_next_interval returns an instant strictly after now, at most one
\* cadence ahead (minute kinds and beat) or on the next local date (date).
C7_NeverZeroLength ==
  call.type # None =>
    /\ call.next > call.now
    /\ call.type = "beat" => call.next - call.now <= BeatInterval
    /\ call.type \notin {"beat", "date"} => call.next - call.now <= MinuteInterval
    /\ call.type = "date" =>
         as_local(time_zone, call.next) \div Day
           <= as_local(time_zone, call.now) \div Day + 1

\* C8: for the minute kinds get_next_interval returns now + (60 - now mod
\* 60), the first whole minute of epoch time strictly after now.
C8_NextMinute ==
  call.type \notin {None, "date", "beat"} =>
    /\ call.next = call.now + (MinuteInterval - Phase(call.now, 0, MinuteInterval))
    /\ EpochSeconds(call.next) % 60 = 0 /\ Tenths(call.next) = 0
    /\ call.next > call.now
    /\ call.next - call.now <= MinuteInterval

\* C8 witness: a call exactly on a minute boundary, answered a minute ahead.
C8_Witness ==
  /\ call.type = "time_utc"
  /\ Phase(call.now, 0, MinuteInterval) = 0
  /\ call.next = call.now + MinuteInterval

\* C9: for beat get_next_interval returns now + 86.4 s - ((now + 1 h) mod
\* 86.4 s), an instant whose one-hour shift is a whole number of beats.
C9_NextBeat ==
  call.type = "beat" =>
    /\ call.next = call.now + (BeatInterval - Phase(call.now, Hour, BeatInterval))
    /\ Phase(call.next, Hour, BeatInterval) = 0

\* C10 as claimed: for date get_next_interval returns the instant that
\* reads 00:00:00 local time, under the offset in force at that instant, on
\* the local date after now's (never one that reads 23:00 or 01:00).
C10_NextLocalMidnight ==
  call.type = "date" =>
    /\ as_local(time_zone, call.next) % Day = 0
    /\ Tenths(call.next) = 0
    /\ as_local(time_zone, call.next) \div Day
         = as_local(time_zone, call.now) \div Day + 1

\* C10 as amended: for date get_next_interval returns the instant at which
\* the local date after now's begins (the tenth of a second before it still
\* reads now's date).  It reads 00:00:00 local time under the offset in
\* force at it, also when the offset changes between now and it, unless the
\* clocks are put forward at 00:00 on that date: then it is the instant of
\* that change and reads 01:00:00.
C10_NextLocalDayStart ==
  call.type = "date" =>
    LET local == as_local(time_zone, call.next)
        offset == UtcOffset(time_zone, EpochSeconds(call.next))
        earlier == UtcOffset(time_zone, EpochSeconds(call.next) - 1)
    IN  /\ Tenths(call.next) = 0
        /\ call.next > call.now
        /\ local \div Day = as_local(time_zone, call.now) \div Day + 1
        /\ as_local(time_zone, call.next - 1) \div Day
             = as_local(time_zone, call.now) \div Day
        /\ \/ local % Day = 0
           \/ /\ local % Day = Hour
              /\ offset = earlier + Hour

\* C10 witness: a call answered with the instant at which the clocks are
\* put forward at local midnight, which reads 01:00 on the following date.
C10_Witness ==
  /\ call.type = "date"
  /\ as_local(time_zone, call.next) % Day = Hour
  /\ UtcOffset(time_zone, EpochSeconds(call.next))
       > UtcOffset(time_zone, EpochSeconds(call.now))

\* Tenths of a second elapsed in the day of an instant shifted by the given
\* seconds, counted from the epoch.
TenthsOfDay(t, shift) == (Secs((BaseEpoch + shift) % Day) + t) % Secs(Day)

\* The number written in the characters from..to of a string.
Decimal(s, from, to) ==
  LET RECURSIVE Value(_)
      Value(i) == IF i < from THEN 0 ELSE Value(i - 1) * 10 + DigitValue(s[i])
  IN  Value(to)
AllDigits(s, from, to) ==
  \A i \in from..to : \E d \in 0..9 : s[i] = Digits[d + 1]

\* C11: the value of a beat sensor is "@" and exactly three digits, whose
\* number b is in 0..999 and is the whole number of 86.4 s periods elapsed
\* in the day of the instant one hour ahead of UTC; it depends on the
\* instant only, and 23:00:00 UTC reads @000.
C11_BeatFormat ==
  ("beat" \in entities /\ lastOp.op \in {"setup", "activate"}) =>
    LET value == state["beat"]
        b == Decimal(value, 2, 4)
    IN  /\ Len(value) = 4 /\ value[1] = "@" /\ AllDigits(value, 2, 4)
        /\ b \in 0..999
        /\ 864 * b <= TenthsOfDay(clock, Hour)
        /\ TenthsOfDay(clock, Hour) < 864 * (b + 1)
        /\ (EpochSeconds(clock) % Day = 23 * Hour /\ Tenths(clock) = 0)
             => value = <<"@", "0", "0", "0">>

\* C11 witness: a beat sensor constructed a tenth of a second before
\* 23:00:00 UTC of a day in a zone other than UTC, reading @999.
C11_Witness ==
  /\ "beat" \in entities /\ lastOp.op = "setup"
  /\ time_zone = "Australia/Sydney"
  /\ TenthsOfDay(clock, Hour) = Secs(Day) - 1
  /\ state["beat"] = <<"@", "9", "9", "9">>

\* The characters of s from position i read HH:MM, the hour and minute of
\* the wall-clock seconds.
ReadsTime(s, i, wall) ==
  /\ AllDigits(s, i, i + 1) /\ s[i + 2] = ":" /\ AllDigits(s, i + 3, i + 4)
  /\ Decimal(s, i, i + 1) \in 0..23 /\ Decimal(s, i + 3, i + 4) \in 0..59
  /\ Decimal(s, i, i + 1) * Hour + Decimal(s, i + 3, i + 4) * 60
       = (wall % Day) - (wall % 60)

\* The characters of s from position i read YYYY-MM-DD, the date of the
\* wall-clock seconds.
ReadsDate(s, i, wall) ==
  /\ AllDigits(s, i, i + 3) /\ s[i + 4] = "-" /\ AllDigits(s, i + 5, i + 6)
  /\ s[i + 7] = "-" /\ AllDigits(s, i + 8, i + 9)
  /\ Decimal(s, i + 5, i + 6) \in 1..12 /\ Decimal(s, i + 8, i + 9) \in 1..31
  /\ DaysFromCivil(Decimal(s, i, i + 3), Decimal(s, i + 5, i + 6),
                   Decimal(s, i + 8, i + 9)) = wall \div Day

\* The value of a sensor of the given type shows instant t in zone z.
Shows(value, type, z, t) ==
  LET local == as_local(z, t)
      utc == EpochSeconds(t)
  IN  CASE type = "time" -> Len(value) = 5 /\ ReadsTime(value, 1, local)
        [] type = "time_utc" -> Len(value) = 5 /\ ReadsTime(value, 1, utc)
        [] type = "date" -> Len(value) = 10 /\ ReadsDate(value, 1, local)
        [] type = "date_time" ->
             /\ Len(value) = 17 /\ value[11] = "," /\ value[12] = " "
             /\ ReadsDate(value, 1, local) /\ ReadsTime(value, 13, local)
        [] type = "date_time_utc" ->
             /\ Len(value) = 17 /\ value[11] = "," /\ value[12] = " "
             /\ ReadsDate(value, 1, utc) /\ ReadsTime(value, 13, utc)
        [] type = "time_date" ->
             /\ Len(value) = 17 /\ value[6] = "," /\ value[7] = " "
             /\ ReadsTime(value, 1, local) /\ ReadsDate(value, 8, local)
        [] type = "date_time_iso" ->
             /\ Len(value) = 19 /\ value[11] = "T"
             /\ ReadsDate(value, 1, local) /\ ReadsTime(value, 12, local)
             /\ SubSeq(value, 17, 19) = <<":", "0", "0">>
        [] type = "beat" ->
             /\ Len(value) = 4 /\ value[1] = "@" /\ AllDigits(value, 2, 4)
             /\ 864 * Decimal(value, 2, 4) <= TenthsOfDay(t, Hour)
             /\ TenthsOfDay(t, Hour) < 864 * (Decimal(value, 2, 4) + 1)
        [] OTHER -> FALSE

\* C12: every field of a value is read off the one instant the formatter
\* was given: the construction instant for a new sensor, the target instant
\* of the timer for a fire (not the time at which the listener runs).
C12_FieldsOfOneInstant ==
  [][/\ lastOp'.op = "setup" =>
          \A k \in entities' : Shows(state'[k], k, time_zone, clock)
     /\ \A t \in timers :
          Fire(t) => /\ Shows(state'[t.owner], t.owner, time_zone, t.at)
               /\ written'[t.owner] = state'[t.owner]]_vars

\* C12 witness: a listener that ran more than a minute after its timer's
\* target in a zone off UTC, leaving a local time that is not the current
\* minute's.
C12_Witness ==
  /\ lastOp.op = "fire" /\ prevOp.op = "delay"
  /\ lastOp.kind = "date_time" /\ time_zone = "Asia/Kolkata"
  /\ ReadsTime(state["date_time"], 13, as_local(time_zone, clock) - 60)
  /\ ~ReadsTime(state["date_time"], 13, as_local(time_zone, clock))
  /\ ~ReadsTime(state["date_time"], 13, EpochSeconds(clock) - 60)

\* C13: without a time zone async_setup_entry calls neither
\* async_add_entities nor the registry: then and ever after there is no
\* sensor, no unique id, no value, no timer, and the registry and what the
\* host shows are as they were, whatever options are enabled.
C13_NoTimeZoneNoSensors ==
  [][time_zone = None =>
       /\ lastOp'.op = "setup" =>
            /\ setup' = "failed"
            /\ \A i \in DOMAIN lastOp'.did :
                 lastOp'.did[i][1] \notin {"add", "remove"}
       /\ entities' = {} /\ timers' = {}
       /\ \A k \in Kinds : /\ state'[k] = NoValue /\ unique_id'[k] = None
                            /\ unsub'[k] = NoHandle /\ ~added'[k]
       /\ registry' = registry
       /\ written' = written]_vars

\* C13 witness: a failed setup with enabled options and with registry
\* entries of disabled options left in place.
C13_Witness ==
  /\ setup = "failed" /\ time_zone = None
  /\ Cardinality(options) >= 2
  /\ registry \ options # {} /\ registry \cap options # {}
  /\ entities = {}

\* C14: with a time zone async_setup_entry constructs exactly the sensors
\* of the enabled options, each with unique id entry id, "_", option (so
\* pairwise distinct), and removes the registry entry of every disabled
\* option and of no enabled one; a disabled option then has no registry
\* entry, no sensor, no timer and no state shown by the host.
C14_OnePerEnabledKind ==
  [][/\ (lastOp'.op = "setup" /\ time_zone # None) =>
          /\ setup' = "done"
          /\ registry' = registry \ (Kinds \ options)
          /\ lastOp'.did = <<<<"remove", registry \ options>>, <<"add", options>>>>
     /\ setup' = "done" =>
          /\ entities' = options
          /\ \A k \in options :
               /\ unique_id'[k] = entry_id \o "_" \o k
               /\ state'[k] # NoValue
               /\ \A j \in options \ {k} : unique_id'[j] # unique_id'[k]
          /\ \A k \in Kinds \ options :
               /\ unique_id'[k] = None /\ state'[k] = NoValue
               /\ k \notin registry' /\ k \notin entities'
               /\ written'[k] = NoValue
               /\ Own(k)' = {} /\ unsub'[k] = NoHandle]_vars

\* C14 witness: a setup that removed the entries of two disabled options
\* the host still showed, kept the entry of an enabled one and constructed
\* two sensors.
C14_Witness ==
  /\ setup = "done" /\ lastOp.op = "setup"
  /\ Cardinality(lastOp.did[1][2]) = 2
  /\ Cardinality(entities) = 2
  /\ registry = entities
  /\ \A k \in lastOp.did[1][2] : written[k] = NoValue /\ k \notin entities

\* C15: a delivery of a timer makes three calls, once each and in this
\* order: the update of the value from the instant it is called with, the
\* write of that value to the host, and the arming of one new timer, whose
\* handle it stores; it is the delivery of one timer only.
C15_FireCycleOrder ==
  [][\A t \in timers : Fire(t) =>
       LET k == t.owner
           did == lastOp'.did
       IN  /\ Len(did) = 3
           /\ did[1] = <<"update", t.at>>
           /\ did[2][1] = "write" /\ did[3][1] = "arm"
           /\ Shows(did[2][2], k, time_zone, t.at)
           /\ state'[k] = did[2][2] /\ written'[k] = did[2][2]
           /\ \E n \in timers' :
                /\ n.owner = k /\ n.id = unsub'[k] /\ n.at = did[3][2]
                /\ n.at >= clock
                /\ timers' = (timers \ {t}) \cup {n}
           /\ \A j \in Kinds \ {k} : written'[j] = written[j]]_vars

\* C15 witness: a late delivery to a sensor that was added once: the value
\* of the target instant is written and the one timer now armed is the new
\* one, for an instant yet to come.
C15_Witness ==
  /\ lastOp.op = "fire" /\ prevOp.op = "delay" /\ nextHandle = 2
  /\ Len(lastOp.did) = 3
  /\ lastOp.did[1][2] + MaxDelay = clock
  /\ written[lastOp.kind] = lastOp.did[2][2]
  /\ \E n \in timers : timers = {n} /\ n.at = lastOp.did[3][2] /\ n.at > clock

\* The cadence of a sensor type other than date, and the shift in seconds
\* under which its boundaries are multiples of the cadence.
Cadence(type) == IF type = "beat" THEN BeatInterval ELSE MinuteInterval
Shift(type) == IF type = "beat" THEN Hour ELSE 0

\* Instant next is the first cadence boundary strictly after instant now.
FirstBoundaryAfter(type, now, next) ==
  /\ Phase(next, Shift(type), Cadence(type)) = 0
  /\ next > now
  /\ next - now <= Cadence(type)

\* C16: for the minute kinds and beat every armed timer targets an exact
\* cadence boundary, and the timer armed by a delivery targets the first
\* boundary strictly after the time of the re-arm, however late this or
\* earlier deliveries were.
C16_NoDriftAccumulates ==
  /\ \A t \in timers :
       t.owner # "date" => Phase(t.at, Shift(t.owner), Cadence(t.owner)) = 0
  /\ (lastOp.op = "fire" /\ lastOp.kind # "date") =>
       /\ call.type = lastOp.kind /\ call.now = clock
       /\ FirstBoundaryAfter(call.type, call.now, call.next)
       /\ \E t \in timers : t.id = lastOp.handle /\ t.at = call.next

\* C17: when the arming of a timer raises, in async_added_to_hass or in the
\* re-arm of a delivery, the sensor is left with no armed timer and a clear
\* handle, and the timers, handles and values of the other sensors are as
\* they were.
C17_ArmFailureContained ==
  [][(lastOp'.raised /\ lastOp'.op \in {"activate", "fire"}) =>
       LET k == lastOp'.kind
       IN  /\ {t \in timers' : t.owner = k} = {}
           /\ unsub'[k] = NoHandle
           /\ \A j \in Kinds \ {k} :
                /\ Own(j)' = Own(j) /\ unsub'[j] = unsub[j]
                /\ state'[j] = state[j] /\ written'[j] = written[j]]_vars

\* C18: _update_internal_state never returns normally for a type outside
\* the eight option types: constructing a sensor of such a type raises
\* before the formatter is called and leaves no sensor, and every sensor
\* there is has one of the eight types and a value.
C18_UnknownKindFailsLoudly ==
  /\ entities \subseteq Kinds
  /\ \A k \in entities : state[k] # NoValue
  /\ (lastOp.op = "construct" /\ lastOp.kind \notin Kinds) =>
       lastOp.raised /\ lastOp.did = <<>>
  /\ (\E i \in DOMAIN lastOp.did : lastOp.did[i][1] = "update") =>
       lastOp.kind \in Kinds /\ Shows(state[lastOp.kind], lastOp.kind,
                                       time_zone, lastOp.did[1][2])

\* C18 witness: the construction of a sensor of an unlisted type raised,
\* next to a sensor of a listed type whose timer has been delivered.
C18_Witness ==
  /\ lastOp.op = "construct" /\ lastOp.kind \in UnknownTypes /\ lastOp.raised
  /\ prevOp.op = "fire"
  /\ entities # {} /\ DOMAIN state = Kinds

\* C19: an activate, a delivery or a deactivate of one sensor leaves every
\* other sensor as it was: in existence, type and unique id, value, value
\* written to the host, stored handle and armed timers.
C19_InstancesIndependent ==
  [][\A k \in Kinds :
       (lastOp'.op \in {"activate", "fire", "deactivate"} /\ lastOp'.kind = k)
         => /\ entities' = entities
            /\ \A j \in Kinds \ {k} :
                 /\ unique_id'[j] = unique_id[j]
                 /\ state'[j] = state[j]
                 /\ written'[j] = written[j]
                 /\ unsub'[j] = unsub[j]
                 /\ added'[j] = added[j]
                 /\ Own(j)' = Own(j)]_vars

\* C19 witness: two sensors of different types, both with a timer armed
\* under their own handle, the one delivered right after the other.
C19_Witness ==
  /\ lastOp.op = "fire" /\ prevOp.op = "fire" /\ lastOp.kind # prevOp.kind
  /\ Armed(lastOp.kind) /\ Armed(prevOp.kind)
  /\ unsub[lastOp.kind] # unsub[prevOp.kind]
  /\ written[lastOp.kind] # NoValue /\ written[prevOp.kind] # NoValue

\* Instants sampled from the interval from t up to but excluding n: both
\* ends, the middle, and the tenths next to the whole seconds around them.
Between(t, n) ==
  {i \in {t, t + 1, t + 9, t + 10, (t + n) \div 2, n - 10, n - 9, n - 1} :
     t <= i /\ i < n}

\* C20: when a timer is delivered on time at its target t and the next
\* timer is armed for n, the value published at t is what the formatter
\* gives for every instant from t up to n, and not what it gives at n (for
\* beat, n reads the next beat number modulo 1000): no change of the value
\* falls between two deliveries.
C20_NoMissedChange ==
  [][\A t \in timers : (Fire(t) /\ clock = t.at) =>
       LET k == t.owner
           n == call'.next
       IN  /\ written'[k] = state'[k]
           /\ \E armed \in timers' : armed.owner = k /\ armed.at = n
           /\ n > t.at
           /\ \A i \in Between(t.at, n) : Shows(state'[k], k, time_zone, i)
           /\ ~Shows(state'[k], k, time_zone, n)
           /\ k = "beat" =>
                Decimal(update_internal_state(k, time_zone, n, NoValue), 2, 4)
                  = (Decimal(state'[k], 2, 4) + 1) % 1000]_vars

====
